---- MODULE Spec2Model ----
(***************************************************************************)
(* The asynchronous try-on job broker of app.py: the Flask handlers        *)
(* start_tryon_api and get_status_api, the background worker               *)
(* process_try_on (one thread per job), the image download helper and the  *)
(* credential rotator get_next_api_key.                                    *)
(*                                                                         *)
(* Granularity.  A request handler is one step: it touches shared state    *)
(* only through TASKS (one dict operation on a key no other thread knows   *)
(* yet) and its response is the last thing it does.  The worker is cut at  *)
(* every place where another thread can observe a difference: each read or *)
(* write of shared state (key_cycle, TASKS, the static directory) and      *)
(* each await of the remote service is a step of its own.  A single dict   *)
(* or iterator operation is one step: CPython runs it under the            *)
(* interpreter lock.                                                       *)
(*                                                                         *)
(* Strings that are built from pieces (f-strings, str(e)) are sequences of *)
(* pieces, so the empty string is << >> and "contains" is membership.      *)
(***************************************************************************)
EXTENDS Integers, Sequences, FiniteSets, TLC

\* ------------------------------------------------------------------ bounds
\* How many job identifiers uuid4 can hand out in a run.
MaxJobs == 2
\* How many status checks one job may send (the code has no such limit).
MaxPolls == 2
\* The largest credential pool KLING_KEYS may hold.
MaxPool == 2
\* How many jobs there are in the runs that stop each worker once it has
\* drawn its credential (SpecKeys).
MaxCalls == 4

\* ------------------------------------------------------- values and strings
None == "None"
\* A local variable of the worker that holds nothing yet.
Unset == << >>

\* Values a JSON field of the submission body can take: absent (data.get
\* gives None), the empty string, an image reference.
Imgs == {None, "", "m.jpg"}

\* Python truthiness of such a value, as `not x` uses it.
Falsy(x) == x = None \/ x = ""

\* A variant of InProgress that also waits on a status it does not know.
InProgressLenient == {"pending", "running", "processing", "mystery"}

\* A variant of InProgress that does not know "running".
InProgressShort == {"pending", "processing"}

\* The statuses on which the poll loop keeps going.
InProgress == {"pending", "running", "processing"}

\* Statuses the remote service can report: those three, the documented
\* "completed", and others, among them one the client has never heard of.
RemoteStatuses == {"pending", "running", "processing", "completed", "failed", "mystery"}

\* An exception is its class and its constructor arguments.
Exc(type, args) == [type |-> type, args |-> args]

\* str(e): the empty string for an exception built without arguments (as
\* asyncio.TimeoutError is when aiohttp's total timeout fires), the repr of
\* the key for a KeyError, the message otherwise.
Str(e) ==
    IF e.args = << >> THEN << >>
    ELSE IF e.type = "KeyError" THEN <<"'">> \o e.args \o <<"'">>
    ELSE e.args

\* What a remote request of aiohttp can raise instead of giving a usable
\* answer: raise_for_status on a non-success response, a connection failure,
\* the session's total timeout.
HttpError == Exc("ClientResponseError", <<"500, message='Internal Server Error'">>)
ConnError == Exc("ClientConnectorError", <<"Cannot connect to host api.piapi.ai:443">>)
Timeout == Exc("TimeoutError", << >>)
TransportErrors == {HttpError, ConnError, Timeout}

\* f"{job_id}.png" inside STATIC_DIR, and f"/static/{job_id}.png"
FileName(job_id) == [stem |-> job_id, ext |-> ".png"]
StaticUrl(job_id) == [dir |-> "/static/", file |-> FileName(job_id)]

\* d.update(u) of a dict
Update(d, u) ==
    [k \in DOMAIN d \cup DOMAIN u |-> IF k \in DOMAIN u THEN u[k] ELSE d[k]]

\* ------------------------------------------------------------------- state
VARIABLES
    API_KEYS,   \* the credential pool, fixed at start-up
    key_cycle,  \* itertools.cycle(API_KEYS): the iterator's internal state
    TASKS,      \* job id -> job record
    static,     \* names of the files in STATIC_DIR
    pc,         \* per job id: where its background thread stands
    api_key,    \* per job: the worker's local api_key
    external_task_id, \* per job: the worker's local external_task_id
    status,     \* per job: the worker's local status
    log,        \* history: per job, its events in order
    issued,     \* history: the keys get_next_api_key returned, in call order
    queried,    \* history: job ids whose status has been read at least once
    last        \* the HTTP response of the step just taken, if it was a handler's

vars == <<API_KEYS, key_cycle, TASKS, static, pc, api_key, external_task_id,
          status, log, issued, queried, last>>

NoResp == [op |-> "none"]

Event(ev, j) == [ev |-> ev, key |-> api_key[j]]
Count(j, ev) == Cardinality({i \in 1..Len(log[j]) : log[j][i].ev = ev})

\* KLING_KEYS.split(","): a non-empty list of distinct opaque credentials.
Pools == {[i \in 1..n |-> <<"KEY", i>>] : n \in 1..MaxPool}

\* itertools.cycle(iterable): nothing consumed, nothing saved yet.
Cycle(iterable) == [it |-> iterable, saved |-> << >>, index |-> 0]

\* A variant of CycleNext that never advances the index of the saved list.
CycleNextStuck(c) ==
    IF c.it # << >>
    THEN [item  |-> Head(c.it),
          cycle |-> [c EXCEPT !.it = Tail(@), !.saved = Append(@, Head(c.it))]]
    ELSE [item  |-> c.saved[c.index + 1], cycle |-> c]

\* next() of an itertools.cycle object: during the first lap it takes the
\* next item of the underlying iterator and saves it; once that iterator is
\* exhausted it walks the saved list and wraps the index at its end.
CycleNext(c) ==
    IF c.it # << >>
    THEN [item  |-> Head(c.it),
          cycle |-> [c EXCEPT !.it = Tail(@), !.saved = Append(@, Head(c.it))]]
    ELSE [item  |-> c.saved[c.index + 1],
          cycle |-> [c EXCEPT !.index =
                        IF c.index + 1 >= Len(c.saved) THEN 0 ELSE c.index + 1]]

\* The state after the module has loaded, with ids the identifiers uuid4
\* will hand out: no job, an empty static directory, a fresh key cycle.
InitWith(ids) ==
    /\ API_KEYS \in Pools
    /\ key_cycle = Cycle(API_KEYS)
    /\ TASKS = << >>
    /\ static = {}
    /\ pc = [j \in ids |-> "none"]
    /\ api_key = [j \in ids |-> Unset]
    /\ external_task_id = [j \in ids |-> Unset]
    /\ status = [j \in ids |-> None]
    /\ log = [j \in ids |-> << >>]
    /\ issued = << >>
    /\ queried = {}
    /\ last = NoResp

Init == InitWith(1..MaxJobs)

\* The identifiers of the run.
JobIds == DOMAIN pc

\* ------------------------------------------------------------ the handlers
\* A variant of Invalid that rejects only when both fields are missing.
InvalidBoth(model_img, dress_img) == Falsy(model_img) /\ Falsy(dress_img)

\* The test of line 119.
Invalid(model_img, dress_img) == Falsy(model_img) \/ Falsy(dress_img)

\* A variant of start_tryon_api that starts the thread without storing the
\* pending record.
start_tryon_api_norecord(model_img, dress_img) ==
    IF Falsy(model_img) \/ Falsy(dress_img)
    THEN /\ last' = [op |-> "start", model_img |-> model_img, dress_img |-> dress_img,
                     code |-> 400,
                     body |-> [error |-> "model_img and dress_img are required"]]
         /\ UNCHANGED <<API_KEYS, key_cycle, TASKS, static, pc, api_key,
                        external_task_id, status, log, issued, queried>>
    ELSE \E job_id \in {j \in JobIds : pc[j] = "none"} :
            /\ pc' = [pc EXCEPT ![job_id] = "started"]
            /\ last' = [op |-> "start", model_img |-> model_img,
                        dress_img |-> dress_img,
                        code |-> 202, body |-> [jobId |-> job_id]]
            /\ UNCHANGED <<API_KEYS, key_cycle, TASKS, static, api_key,
                           external_task_id, status, log, issued, queried>>

\* A variant of start_tryon_api that stores the new record as "processing".
start_tryon_api_processing(model_img, dress_img) ==
    IF Falsy(model_img) \/ Falsy(dress_img)
    THEN /\ last' = [op |-> "start", model_img |-> model_img, dress_img |-> dress_img,
                     code |-> 400,
                     body |-> [error |-> "model_img and dress_img are required"]]
         /\ UNCHANGED <<API_KEYS, key_cycle, TASKS, static, pc, api_key,
                        external_task_id, status, log, issued, queried>>
    ELSE \E job_id \in JobIds \ DOMAIN TASKS :
            /\ TASKS' = TASKS @@ (job_id :> [status |-> "processing"])
            /\ pc' = [pc EXCEPT ![job_id] = "started"]
            /\ last' = [op |-> "start", model_img |-> model_img,
                        dress_img |-> dress_img,
                        code |-> 202, body |-> [jobId |-> job_id]]
            /\ UNCHANGED <<API_KEYS, key_cycle, static, api_key,
                           external_task_id, status, log, issued, queried>>

\* POST /start-tryon
start_tryon_api(model_img, dress_img) ==
    IF Invalid(model_img, dress_img)
    THEN /\ last' = [op |-> "start", model_img |-> model_img, dress_img |-> dress_img,
                     code |-> 400,
                     body |-> [error |-> "model_img and dress_img are required"]]
         /\ UNCHANGED <<API_KEYS, key_cycle, TASKS, static, pc, api_key, external_task_id,
                        status,
                        log, issued, queried>>
    ELSE \E job_id \in JobIds \ DOMAIN TASKS :   \* uuid4: an identifier never seen
            /\ TASKS' = TASKS @@ (job_id :> [status |-> "pending"])
            /\ pc' = [pc EXCEPT ![job_id] = "started"]      \* thread.start()
            /\ last' = [op |-> "start", model_img |-> model_img,
                        dress_img |-> dress_img,
                        code |-> 202, body |-> [jobId |-> job_id]]
            /\ UNCHANGED <<API_KEYS, key_cycle, static, api_key, external_task_id, status, log,
                           issued, queried>>

\* A variant of get_status_api that stores a pending record for an
\* identifier it does not find (TASKS.setdefault).
get_status_api_setdefault(job_id) ==
    LET task == IF job_id \in DOMAIN TASKS THEN TASKS[job_id] ELSE [status |-> "pending"]
    IN  /\ TASKS' = IF job_id \in DOMAIN TASKS THEN TASKS ELSE TASKS @@ (job_id :> task)
        /\ last' = [op |-> "status", job_id |-> job_id, code |-> 200, body |-> task]
        /\ queried' = queried \cup {job_id}
        /\ UNCHANGED <<API_KEYS, key_cycle, static, pc, api_key, external_task_id,
                       status, log, issued>>

\* A variant of get_status_api that removes the record of a finished job
\* once it has been read (TASKS.pop).
get_status_api_pop(job_id) ==
    LET found == job_id \in DOMAIN TASKS /\ DOMAIN TASKS[job_id] # {}
    IN  /\ last' = IF found
                   THEN [op |-> "status", job_id |-> job_id, code |-> 200,
                         body |-> TASKS[job_id]]
                   ELSE [op |-> "status", job_id |-> job_id, code |-> 404,
                         body |-> [error |-> "Job ID not found"]]
        /\ queried' = IF found THEN queried \cup {job_id} ELSE queried
        /\ TASKS' = IF found /\ pc[job_id] = "done"
                    THEN [k \in DOMAIN TASKS \ {job_id} |-> TASKS[k]]
                    ELSE TASKS
        /\ UNCHANGED <<API_KEYS, key_cycle, static, pc, api_key, external_task_id,
                       status, log, issued>>

\* GET /status/<job_id>
get_status_api(job_id) ==
    \* TASKS.get(job_id) is a record that is not falsy (None, or an empty dict)
    LET found == job_id \in DOMAIN TASKS /\ DOMAIN TASKS[job_id] # {}
    IN  /\ last' = IF found
                   THEN [op |-> "status", job_id |-> job_id, code |-> 200,
                         body |-> TASKS[job_id]]
                   ELSE [op |-> "status", job_id |-> job_id, code |-> 404,
                         body |-> [error |-> "Job ID not found"]]
        /\ queried' = IF found THEN queried \cup {job_id} ELSE queried
    /\ UNCHANGED <<API_KEYS, key_cycle, TASKS, static, pc, api_key, external_task_id,
                        status, log,
                   issued>>

\* -------------------------------------------------------------- the worker
\* get_next_api_key()
get_next_api_key == CycleNext(key_cycle)

\* A variant of Except that records the failure without its message.
ExceptStatusOnly(job_id, e) ==
    /\ TASKS' = [TASKS EXCEPT ![job_id] = Update(@, [status |-> "failed"])]
    /\ pc' = [pc EXCEPT ![job_id] = "done"]

\* A variant of Except that puts the job back at its start instead of
\* failing it.
ExceptRetry(job_id, e) ==
    /\ TASKS' = [TASKS EXCEPT ![job_id] = Update(@, [status |-> "pending"])]
    /\ pc' = [pc EXCEPT ![job_id] = "started"]

\* A variant of Except that marks every record of TASKS as failed.
ExceptAll(job_id, e) ==
    /\ TASKS' = [k \in DOMAIN TASKS |->
                    Update(TASKS[k], [status |-> "failed", error |-> Str(e)])]
    /\ pc' = [pc EXCEPT ![job_id] = "done"]

\* A variant of Except that drops the record of the job instead of failing it.
ExceptDrop(job_id, e) ==
    /\ TASKS' = [k \in DOMAIN TASKS \ {job_id} |-> TASKS[k]]
    /\ pc' = [pc EXCEPT ![job_id] = "done"]

\* The except clause of process_try_on (lines 98-100), entered with e.
Except(job_id, e) ==
    /\ TASKS' = [TASKS EXCEPT ![job_id] =
                    Update(@, [status |-> "failed", error |-> Str(e)])]
    /\ pc' = [pc EXCEPT ![job_id] = "done"]

\* What the remote service can answer to the submission, as parsed JSON: with
\* the task id, or a success response without one.
PostAnswers(job_id) == {[data |-> [task_id |-> <<"ext", job_id>>]],
                        [data |-> [message |-> "queued"]]}

\* What it can answer to a status check: any status without an output, a
\* completed task with its output, or a success response without a status.
ImgUrl == "https://cdn.example/out.png"
GetAnswers == {[data |-> [status |-> s]] : s \in RemoteStatuses}
              \cup {[data |-> [status |-> "completed",
                               output |-> [works |-> <<[image |-> [resource |-> ImgUrl]]>>]]]}
              \cup {[data |-> [message |-> "busy"]]}

\* Line 57: the worker draws its credential.
GetKey(job_id) ==
    /\ pc[job_id] = "started"
    /\ api_key' = [api_key EXCEPT ![job_id] = get_next_api_key.item]
    /\ key_cycle' = get_next_api_key.cycle
    /\ issued' = Append(issued, get_next_api_key.item)
    /\ log' = [log EXCEPT ![job_id] = Append(@, [ev |-> "key", key |-> get_next_api_key.item])]
    /\ pc' = [pc EXCEPT ![job_id] = "keyed"]
    /\ last' = NoResp
    /\ UNCHANGED <<API_KEYS, TASKS, static, external_task_id, status, queried>>

\* A variant of MarkProcessing that goes on without writing the status.
MarkProcessingSkip(job_id) ==
    /\ pc[job_id] = "keyed"
    /\ log' = [log EXCEPT ![job_id] = Append(@, Event("processing", job_id))]
    /\ pc' = [pc EXCEPT ![job_id] = "submit"]
    /\ last' = NoResp
    /\ UNCHANGED <<API_KEYS, key_cycle, TASKS, static, api_key, external_task_id,
                   status, issued, queried>>

\* Line 66: the record becomes "processing".
MarkProcessing(job_id) ==
    /\ pc[job_id] = "keyed"
    /\ TASKS' = [TASKS EXCEPT ![job_id] = [@ EXCEPT !["status"] = "processing"]]
    /\ log' = [log EXCEPT ![job_id] = Append(@, Event("processing", job_id))]
    /\ pc' = [pc EXCEPT ![job_id] = "submit"]
    /\ last' = NoResp
    /\ UNCHANGED <<API_KEYS, key_cycle, static, api_key, external_task_id, status,
                   issued, queried>>

\* Line 67: the submission request leaves; the worker awaits the answer.
PostSend(job_id) ==
    /\ pc[job_id] = "submit"
    /\ log' = [log EXCEPT ![job_id] = Append(@, Event("submit", job_id))]
    /\ pc' = [pc EXCEPT ![job_id] = "await_post"]
    /\ last' = NoResp
    /\ UNCHANGED <<API_KEYS, key_cycle, TASKS, static, api_key, external_task_id,
                   status, issued, queried>>

\* Lines 67-74: the answer to the submission arrives, or the request fails.
PostReturn(job_id, res) ==
    /\ pc[job_id] = "await_post"
    /\ last' = NoResp
    /\ IF res \in TransportErrors
       THEN /\ Except(job_id, res)
            /\ log' = [log EXCEPT ![job_id] = Append(@, Event("terminal", job_id))]
            /\ UNCHANGED <<external_task_id, status>>
       ELSE IF "task_id" \notin DOMAIN res.data
       THEN /\ Except(job_id, Exc("KeyError", <<"task_id">>))
            /\ log' = [log EXCEPT ![job_id] = Append(@, Event("terminal", job_id))]
            /\ UNCHANGED <<external_task_id, status>>
       ELSE /\ external_task_id' = [external_task_id EXCEPT ![job_id] = res.data.task_id]
            /\ status' = [status EXCEPT ![job_id] = "pending"]
            /\ pc' = [pc EXCEPT ![job_id] = "sleep"]
            /\ UNCHANGED <<TASKS, log>>
    /\ UNCHANGED <<API_KEYS, key_cycle, static, api_key, issued, queried>>

\* A variant of Sleep that waits until no other job has a request in flight
\* (one loop shared by all jobs).
SleepExclusive(job_id) ==
    /\ pc[job_id] = "sleep"
    /\ \A k \in JobIds \ {job_id} : pc[k] \notin {"await_post", "await_get"}
    /\ Count(job_id, "poll") < MaxPolls
    /\ log' = [log EXCEPT ![job_id] = Append(@, Event("sleep", job_id))]
    /\ pc' = [pc EXCEPT ![job_id] = "poll"]
    /\ last' = NoResp
    /\ UNCHANGED <<API_KEYS, key_cycle, TASKS, static, api_key, external_task_id,
                   status, issued, queried>>

\* Line 76: asyncio.sleep(5) at the head of a loop iteration.
Sleep(job_id) ==
    /\ pc[job_id] = "sleep"
    /\ Count(job_id, "poll") < MaxPolls
    /\ log' = [log EXCEPT ![job_id] = Append(@, Event("sleep", job_id))]
    /\ pc' = [pc EXCEPT ![job_id] = "poll"]
    /\ last' = NoResp
    /\ UNCHANGED <<API_KEYS, key_cycle, TASKS, static, api_key, external_task_id,
                   status, issued, queried>>

\* A variant of GetSend that draws a new credential for every status check.
GetSendRotate(job_id) ==
    /\ pc[job_id] = "poll"
    /\ api_key' = [api_key EXCEPT ![job_id] = CycleNext(key_cycle).item]
    /\ key_cycle' = CycleNext(key_cycle).cycle
    /\ issued' = Append(issued, CycleNext(key_cycle).item)
    /\ log' = [log EXCEPT ![job_id] =
                  Append(@, [ev |-> "poll", key |-> CycleNext(key_cycle).item])]
    /\ pc' = [pc EXCEPT ![job_id] = "await_get"]
    /\ last' = NoResp
    /\ UNCHANGED <<API_KEYS, TASKS, static, external_task_id, status, queried>>

\* A variant of GetSend that may send the status check without the sleep
\* before it.
GetSendEager(job_id) ==
    /\ pc[job_id] \in {"sleep", "poll"}
    /\ log' = [log EXCEPT ![job_id] = Append(@, Event("poll", job_id))]
    /\ pc' = [pc EXCEPT ![job_id] = "await_get"]
    /\ last' = NoResp
    /\ UNCHANGED <<API_KEYS, key_cycle, TASKS, static, api_key, external_task_id,
                   status, issued, queried>>

\* Line 77: the status check leaves; the worker awaits the answer.
GetSend(job_id) ==
    /\ pc[job_id] = "poll"
    /\ log' = [log EXCEPT ![job_id] = Append(@, Event("poll", job_id))]
    /\ pc' = [pc EXCEPT ![job_id] = "await_get"]
    /\ last' = NoResp
    /\ UNCHANGED <<API_KEYS, key_cycle, TASKS, static, api_key, external_task_id,
                   status, issued, queried>>

\* Lines 77-84 and 95-96: the answer to the status check arrives, or the
\* request fails; the loop test; the branch on the final status up to the
\* call of download_image.
GetReturn(job_id, check_res) ==
    /\ pc[job_id] = "await_get"
    /\ last' = NoResp
    /\ IF check_res \in TransportErrors
       THEN /\ Except(job_id, check_res)
            /\ log' = [log EXCEPT ![job_id] = Append(@, Event("terminal", job_id))]
            /\ UNCHANGED status
       ELSE IF "status" \notin DOMAIN check_res.data
       THEN /\ Except(job_id, Exc("KeyError", <<"status">>))
            /\ log' = [log EXCEPT ![job_id] = Append(@, Event("terminal", job_id))]
            /\ UNCHANGED status
       ELSE /\ status' = [status EXCEPT ![job_id] = check_res.data.status]
            /\ IF check_res.data.status \in InProgress
               THEN /\ pc' = [pc EXCEPT ![job_id] = "sleep"]
                    /\ UNCHANGED <<TASKS, log>>
               ELSE IF check_res.data.status = "completed"
               THEN IF "output" \notin DOMAIN check_res.data
                    THEN /\ Except(job_id, Exc("KeyError", <<"output">>))
                         /\ log' = [log EXCEPT ![job_id] =
                                       Append(@, Event("terminal", job_id))]
                    ELSE /\ pc' = [pc EXCEPT ![job_id] = "download"]
                         /\ UNCHANGED <<TASKS, log>>
               ELSE /\ Except(job_id, Exc("Exception",
                            <<"Task failed with status: ", check_res.data.status>>))
                    /\ log' = [log EXCEPT ![job_id] =
                                  Append(@, Event("terminal", job_id))]
    /\ UNCHANGED <<API_KEYS, key_cycle, static, api_key, external_task_id, issued,
                   queried>>

\* What requests.get and the file write of download_image can do: the
\* request succeeds and the body is written; the request fails or answers a
\* bad status (a RequestException); the request succeeds and opening the
\* file fails (an OSError, which download_image does not catch).
DownloadOutcomes == {"written", "RequestException", "OSError", "WriteOSError"}

\* A variant of download_image that returns True also when the request failed.
download_image_unchecked(save_path, r) ==
    CASE r = "written"          -> [static |-> static \cup {save_path}, ret |-> "True"]
      [] r = "RequestException" -> [static |-> static, ret |-> "True"]
      [] r = "OSError"          -> [static |-> static, ret |-> "raise"]
      [] r = "WriteOSError"     -> [static |-> static \cup {save_path}, ret |-> "raise"]

\* A variant of download_image that opens the file before the request is made.
download_image_early(save_path, r) ==
    CASE r = "written"          -> [static |-> static \cup {save_path}, ret |-> "True"]
      [] r = "RequestException" -> [static |-> static \cup {save_path}, ret |-> "False"]
      [] r = "OSError"          -> [static |-> static, ret |-> "raise"]
      [] r = "WriteOSError"     -> [static |-> static \cup {save_path}, ret |-> "raise"]

\* download_image(url, save_path) under outcome r: the files it leaves and
\* what it returns ("raise" when the exception leaves the function).  The
\* request or raise_for_status may raise a RequestException (caught, False);
\* open may raise an OSError before the file exists; f.write may raise one
\* after open has created the file.  An OSError is not caught here.
download_image(save_path, r) ==
    CASE r = "written"          -> [static |-> static \cup {save_path}, ret |-> "True"]
      [] r = "RequestException" -> [static |-> static, ret |-> "False"]
      [] r = "OSError"          -> [static |-> static, ret |-> "raise"]
      [] r = "WriteOSError"     -> [static |-> static \cup {save_path}, ret |-> "raise"]

\* Lines 85-87 and 93-94: download_image runs; a False result or an escaping
\* exception goes to the except clause.
Download(job_id, r) ==
    LET d == download_image(FileName(job_id), r)
    IN  /\ pc[job_id] = "download"
        /\ last' = NoResp
        /\ static' = d.static
        /\ IF d.ret = "True"
           THEN /\ pc' = [pc EXCEPT ![job_id] = "downloaded"]
                /\ log' = [log EXCEPT ![job_id] =
                              @ \o <<Event("fetch", job_id), Event("write", job_id)>>]
                /\ UNCHANGED TASKS
           ELSE /\ Except(job_id,
                      IF d.ret = "False"
                      THEN Exc("Exception", <<"Failed to download the final image.">>)
                      ELSE IF r = "OSError"
                      THEN Exc("OSError", <<"[Errno 13] Permission denied">>)
                      ELSE Exc("OSError", <<"[Errno 28] No space left on device">>))
                /\ log' = [log EXCEPT ![job_id] =
                              @ \o <<Event("fetch", job_id), Event("terminal", job_id)>>]
        /\ UNCHANGED <<API_KEYS, key_cycle, api_key, external_task_id, status,
                       issued, queried>>

\* Lines 88-92: the record becomes "completed".
Complete(job_id) ==
    /\ pc[job_id] = "downloaded"
    /\ TASKS' = [TASKS EXCEPT ![job_id] =
                    Update(@, [status |-> "completed",
                               resultText |-> "Image successfully generated and saved.",
                               image_url |-> StaticUrl(job_id)])]
    /\ log' = [log EXCEPT ![job_id] = Append(@, Event("terminal", job_id))]
    /\ pc' = [pc EXCEPT ![job_id] = "done"]
    /\ last' = NoResp
    /\ UNCHANGED <<API_KEYS, key_cycle, static, api_key, external_task_id, status,
                   issued, queried>>

\* Any step of the background thread of job_id (process_try_on).
WorkerStep(job_id) ==
    \/ GetKey(job_id)
    \/ MarkProcessing(job_id)
    \/ PostSend(job_id)
    \/ \E res \in TransportErrors \cup PostAnswers(job_id) : PostReturn(job_id, res)
    \/ Sleep(job_id)
    \/ GetSend(job_id)
    \/ \E check_res \in TransportErrors \cup GetAnswers : GetReturn(job_id, check_res)
    \/ \E r \in DownloadOutcomes : Download(job_id, r)
    \/ Complete(job_id)

\* ------------------------------------------------------- the specification
Next ==
    \/ \E model_img \in Imgs, dress_img \in Imgs : start_tryon_api(model_img, dress_img)
    \/ \E job_id \in JobIds : get_status_api(job_id)
    \/ \E job_id \in JobIds : GetKey(job_id)
    \/ \E job_id \in JobIds : MarkProcessing(job_id)
    \/ \E job_id \in JobIds : PostSend(job_id)
    \/ \E job_id \in JobIds : \E res \in TransportErrors \cup PostAnswers(job_id) :
            PostReturn(job_id, res)
    \/ \E job_id \in JobIds : Sleep(job_id)
    \/ \E job_id \in JobIds : GetSend(job_id)
    \/ \E job_id \in JobIds : \E check_res \in TransportErrors \cup GetAnswers :
            GetReturn(job_id, check_res)
    \/ \E job_id \in JobIds : \E r \in DownloadOutcomes : Download(job_id, r)
    \/ \E job_id \in JobIds : Complete(job_id)

Spec == Init /\ [][Next]_vars

\* The credential rotator under more callers: MaxCalls jobs are submitted and
\* each worker runs up to and including line 57, in any interleaving.
InitKeys == InitWith(1..MaxCalls)

NextKeys ==
    \/ start_tryon_api("m.jpg", "m.jpg")
    \/ \E job_id \in JobIds : GetKey(job_id)

SpecKeys == InitKeys /\ [][NextKeys]_vars

\* The fair runs: every worker thread is scheduled again and again, every
\* remote request is answered or fails, and the remote service has left the
\* statuses pending, running and processing by the last status check the
\* poll budget allows.  Submissions arrive as in Spec; status queries are
\* left out, as get_status_api writes nothing a worker reads.
Settled(job_id, check_res) ==
    Count(job_id, "poll") >= MaxPolls
        => IF check_res \in TransportErrors THEN TRUE
           ELSE IF "status" \notin DOMAIN check_res.data THEN TRUE
           ELSE check_res.data.status \notin InProgress

LiveWorkerStep(job_id) ==
    \/ GetKey(job_id)
    \/ MarkProcessing(job_id)
    \/ PostSend(job_id)
    \/ \E res \in TransportErrors \cup PostAnswers(job_id) : PostReturn(job_id, res)
    \/ Sleep(job_id)
    \/ GetSend(job_id)
    \/ \E check_res \in TransportErrors \cup GetAnswers :
            Settled(job_id, check_res) /\ GetReturn(job_id, check_res)
    \/ \E r \in DownloadOutcomes : Download(job_id, r)
    \/ Complete(job_id)

NextLive ==
    \/ \E model_img \in Imgs, dress_img \in Imgs : start_tryon_api(model_img, dress_img)
    \/ \E job_id \in JobIds : LiveWorkerStep(job_id)

SpecLive ==
    /\ Init
    /\ [][NextLive]_vars
    /\ \A job_id \in 1..MaxJobs : WF_vars(LiveWorkerStep(job_id))

\* ============================================================== properties
Has(t, field) == field \in DOMAIN t
Last(seq) == seq[Len(seq)]
\* The jobs whose identifier a submission has returned.
Returned == {j \in JobIds : pc[j] # "none"}

\* What a job record may look like.
WellFormed(t) ==
    \/ t.status \in {"pending", "processing"} /\ ~Has(t, "image_url") /\ ~Has(t, "error")
    \/ t.status = "completed" /\ Has(t, "image_url") /\ ~Has(t, "error")
    \/ t.status = "failed" /\ Has(t, "error") /\ ~Has(t, "image_url")

\* C1: every job record of TASKS is in progress without image_url and
\* error, or completed with image_url and without error, or failed with
\* error and without image_url; and so is every record a status read returns.
C1_RecordShape ==
    /\ \A j \in DOMAIN TASKS : WellFormed(TASKS[j])
    /\ (last.op = "status" /\ last.code = 200) => WellFormed(last.body)

C1_Witness ==
    /\ \E j \in DOMAIN TASKS : TASKS[j].status = "failed"
    /\ last.op = "status" /\ last.code = 200 /\ last.body.status = "completed"

\* The edges of pending -> processing -> {completed, failed}.
Forward == {<<"pending", "processing">>, <<"processing", "completed">>,
            <<"processing", "failed">>}
TerminalStatuses == {"completed", "failed"}

\* C2: a record's status changes only along pending -> processing ->
\* {completed, failed}; a record that is completed or failed never changes
\* again; the terminal write happens once per job, when the status becomes
\* terminal.
C2_ForwardOnly ==
    [][\A j \in DOMAIN TASKS :
          /\ j \in DOMAIN TASKS'
          /\ TASKS'[j].status # TASKS[j].status
                => <<TASKS[j].status, TASKS'[j].status>> \in Forward
          /\ TASKS[j].status \in TerminalStatuses => TASKS'[j] = TASKS[j]
          /\ Count(j, "terminal")' = IF TASKS'[j].status \in TerminalStatuses THEN 1 ELSE 0
      ]_vars

C2_Witness ==
    \E j, k \in DOMAIN TASKS :
        /\ TASKS[j].status = "completed" /\ Count(j, "terminal") = 1
        /\ TASKS[k].status = "failed" /\ Count(k, "terminal") = 1
        /\ Count(k, "poll") = MaxPolls

InProgressStatuses == {"pending", "processing"}

C4_ValidationError ==
    [][(last'.op = "start" /\ (last'.model_img \in {None, ""}
                               \/ last'.dress_img \in {None, ""}))
          => /\ last'.code = 400
             /\ UNCHANGED <<TASKS, pc, key_cycle, issued, static, log, api_key,
                            external_task_id, status>>
      ]_vars

\* A rejected submission (one field present, the other missing) while a job
\* exists and another identifier is still free.
C4_Witness ==
    /\ last.op = "start" /\ last.code = 400
    /\ last.model_img = "m.jpg" /\ last.dress_img = None
    /\ DOMAIN TASKS # {} /\ DOMAIN TASKS # JobIds

\* The worker of j has finished (its record carries a terminal status).
Done(j) == pc[j] = "done"
\* The submission of j was answered with a task id.
Submitted(j) == external_task_id[j] # Unset

\* C5: a finished job is completed exactly if its submission succeeded, its
\* last poll returned "completed" with an output URL (so that the download
\* was called) and the download succeeded (download_image returned True, the
\* "write" event of the log); a completed record, in TASKS or
\* in a status answer, points to /static/<jobId>.png, and that file is in
\* the static directory.
C5_CompletedIff ==
    /\ \A j \in DOMAIN TASKS :
          /\ Done(j) =>
                (TASKS[j].status = "completed"
                    <=> /\ Submitted(j)
                        /\ status[j] = "completed"
                        /\ Count(j, "fetch") = 1
                        /\ Count(j, "write") = 1)
          /\ TASKS[j].status = "completed" =>
                /\ Done(j)
                /\ TASKS[j].image_url = StaticUrl(j)
                /\ FileName(j) \in static
    /\ (last.op = "status" /\ last.code = 200 /\ last.body.status = "completed")
          => /\ last.body.image_url = StaticUrl(last.job_id)
             /\ FileName(last.job_id) \in static

\* One job completed, and another failed at its download after a poll that
\* returned "completed".
C5_Witness ==
    \E j, k \in DOMAIN TASKS :
        /\ TASKS[j].status = "completed"
        /\ TASKS[k].status = "failed" /\ status[k] = "completed"
        /\ Count(k, "fetch") = 1

\* C6 as stated: a job that finished without a task id from its submission is
\* failed with a non-empty error, after one submission request and no poll.
C6_SubmitFailure ==
    \A j \in DOMAIN TASKS :
        (Done(j) /\ ~Submitted(j))
            => /\ TASKS[j].status = "failed"
               /\ Has(TASKS[j], "error") /\ TASKS[j].error # << >>
               /\ Count(j, "submit") = 1
               /\ Count(j, "poll") = 0

\* C7: the worker goes on polling only while its status is pending, running
\* or processing; a job whose last poll returned any other status than
\* "completed" is failed with "Task failed with status: <that status>", that
\* poll is its last request and it has fetched nothing; and no job fails
\* that way on one of the three statuses.
C7_TerminalStatus ==
    \A j \in DOMAIN TASKS :
        /\ pc[j] \in {"sleep", "poll", "await_get"}
              => status[j] \in {"pending", "running", "processing"}
        /\ status[j] \notin {None, "pending", "running", "processing", "completed"}
              => /\ Done(j)
                 /\ TASKS[j].status = "failed"
                 /\ TASKS[j].error = <<"Task failed with status: ", status[j]>>
                 /\ \E i \in 1..Len(TASKS[j].error) : TASKS[j].error[i] = status[j]
                 /\ Len(log[j]) >= 2
                 /\ log[j][Len(log[j]) - 1].ev = "poll"
                 /\ Last(log[j]).ev = "terminal"
                 /\ Count(j, "fetch") = 0
        /\ (Done(j) /\ TASKS[j].status = "failed" /\ Len(TASKS[j].error) = 2
              /\ TASKS[j].error[1] = "Task failed with status: ")
              => TASKS[j].error[2] \notin {"pending", "running", "processing", "completed"}

\* A job that failed on a status the client does not know, at its second
\* poll (the first one returned "running").
C7_Witness ==
    \E j \in DOMAIN TASKS :
        /\ Done(j) /\ status[j] = "mystery" /\ Count(j, "poll") = 2

\* C8 as stated: a job that was submitted and then failed carries a non-empty
\* error, is not completed, and its terminal write is its last event.
C8_LaterFailure ==
    \A j \in DOMAIN TASKS :
        (Done(j) /\ Submitted(j) /\ FileName(j) \notin static)
            => /\ TASKS[j].status = "failed"
               /\ Has(TASKS[j], "error") /\ TASKS[j].error # << >>
               /\ Last(log[j]).ev = "terminal"
               /\ Count(j, "terminal") = 1

\* C9: a status query for an identifier that no submission has returned
\* answers 404 "Job ID not found" and leaves TASKS as it was.
C9_UnknownId ==
    [][(last'.op = "status" /\ last'.job_id \notin Returned)
          => /\ last'.code = 404
             /\ last'.body = [error |-> "Job ID not found"]
             /\ TASKS' = TASKS
             /\ last'.job_id \notin DOMAIN TASKS'
      ]_vars

\* A 404 while another job has already finished.
C9_Witness ==
    /\ last.op = "status" /\ last.code = 404
    /\ \E j \in DOMAIN TASKS : Done(j)

\* How often key k occurs in the sequence of issued credentials.
Issued(k) == Cardinality({i \in 1..Len(issued) : issued[i] = k})

\* C10: the k-th call of get_next_api_key returns API_KEYS[(k-1) mod n], in
\* whatever order the workers reach it; so after 2n calls every credential
\* has been returned exactly twice.
C10_RoundRobin ==
    LET n == Len(API_KEYS)
    IN  /\ \A k \in 1..Len(issued) : issued[k] = API_KEYS[((k - 1) % n) + 1]
        /\ Len(issued) = 2 * n => \A i \in 1..n : Issued(API_KEYS[i]) = 2

\* Pool [A, B], four calls, made by the workers in another order than the
\* jobs were submitted.
C10_Witness ==
    /\ Len(API_KEYS) = 2 /\ Len(issued) = 4
    /\ \E j, k \in JobIds : j < k /\ api_key[j] = API_KEYS[2] /\ api_key[k] = API_KEYS[1]

\* The worker of j is running and the model's poll budget lets it go on.
Running(j) ==
    /\ pc[j] \notin {"none", "done"}
    /\ ~(pc[j] = "sleep" /\ Count(j, "poll") >= MaxPolls)

\* A submission that is accepted returns an identifier that is new.
FreshId ==
    (last'.op = "start" /\ last'.code = 202)
        => /\ last'.body.jobId \notin Returned
           /\ last'.body.jobId \notin DOMAIN TASKS

\* A step of the worker of j leaves every other job as it was.
OwnRecordOnly ==
    \A j \in JobIds :
        (pc[j] # "none" /\ pc'[j] # pc[j])
            => \A k \in JobIds \ {j} :
                  /\ pc'[k] = pc[k]
                  /\ log'[k] = log[k]
                  /\ (k \in DOMAIN TASKS => TASKS'[k] = TASKS[k])

\* C11: a submission returns an identifier no earlier submission returned; a
\* step of one job's worker (its failure included) leaves the record, the
\* position and the events of every other job as they were; and a running
\* job always has a next step, whatever the other jobs have done.
C11_Isolation ==
    /\ [](\A j \in JobIds : Running(j) => ENABLED WorkerStep(j))
    /\ [][FreshId /\ OwnRecordOnly]_vars

\* Two jobs submitted; the first one failed at its submission, the second
\* one completed afterwards.
C11_Witness ==
    \E j, k \in DOMAIN TASKS :
        /\ j # k
        /\ TASKS[j].status = "failed" /\ Count(j, "poll") = 0
        /\ TASKS[k].status = "completed"

\* No step takes a started job back or away: it stays started, and when its
\* worker ends, its record carries a terminal status.
NoCancel ==
    \A j \in JobIds :
        pc[j] # "none"
            => /\ pc'[j] # "none"
               /\ j \in DOMAIN TASKS'
               /\ (pc[j] = "done" => pc'[j] = "done")
               /\ (pc'[j] = "done" => TASKS'[j].status \in TerminalStatuses)

\* C12: under fair scheduling of the workers, with every remote request
\* answered and the remote service eventually reporting a status outside
\* pending, running, processing, every accepted job eventually is completed or
\* failed; and no step cancels a started job.
C12_EventuallyTerminal ==
    /\ \A j \in 1..MaxJobs :
          (pc[j] = "started") ~> (pc[j] = "done" /\ TASKS[j].status \in TerminalStatuses)
    /\ [][NoCancel]_vars

\* A job that went through every status check of the budget and then reached
\* its terminal status.
C12_Witness ==
    \E j \in DOMAIN TASKS :
        /\ Done(j) /\ Count(j, "poll") = MaxPolls
        /\ TASKS[j].status \in TerminalStatuses

\* A job has a record exactly if its thread was started; a thread that has
\* not taken a step yet finds its record pending; a record has been written
\* after its creation only as often as its one worker writes it.
OneRecordOneWorker ==
    \A j \in JobIds :
        /\ (j \in DOMAIN TASKS <=> pc[j] # "none")
        /\ (pc[j] = "started" => TASKS[j] = [status |-> "pending"] /\ log[j] = << >>)
        /\ \A ev \in {"key", "processing", "submit", "terminal"} : Count(j, ev) <= 1

\* An accepted submission adds one record and starts one thread, for the
\* identifier it returns.
OneStart ==
    (last'.op = "start" /\ last'.code = 202)
        => /\ DOMAIN TASKS' = DOMAIN TASKS \cup {last'.body.jobId}
           /\ Cardinality(DOMAIN TASKS') = Cardinality(DOMAIN TASKS) + 1
           /\ {k \in JobIds : pc'[k] # pc[k]} = {last'.body.jobId}
           /\ pc[last'.body.jobId] = "none"
           /\ pc'[last'.body.jobId] = "started"
           /\ TASKS'[last'.body.jobId] = [status |-> "pending"]

\* A record changes only in a step of the worker of its own job.
OneWriter ==
    \A j \in DOMAIN TASKS :
        (j \in DOMAIN TASKS' /\ TASKS'[j] # TASKS[j])
            => /\ pc[j] \notin {"none", "done"}
               /\ pc'[j] # pc[j]
               /\ \A k \in JobIds \ {j} : pc'[k] = pc[k]

\* C13: an accepted submission creates one record, pending, before the
\* job's thread takes a step, and starts one thread for that identifier; a
\* record is written after its creation only by the worker of its job, and
\* a worker always finds the record of its job in TASKS.
C13_OneRecordOneWorker ==
    /\ []OneRecordOneWorker
    /\ [][OneStart /\ OneWriter]_vars

\* Both jobs submitted before either worker has taken a step.
C13_Witness ==
    /\ DOMAIN TASKS = JobIds
    /\ \A j \in JobIds : pc[j] = "started" /\ TASKS[j].status = "pending"
    /\ last.op = "start"

\* A step of the worker of j taken while the record of j is pending.
PendingStep(j) ==
    /\ j \in DOMAIN TASKS
    /\ TASKS[j].status = "pending"
    /\ pc'[j] # pc[j]

\* C14 as stated: a step of a worker whose job is still pending changes
\* neither the key cycle nor the static directory, changes TASKS only by
\* setting its own status to processing, and sends no submission.
C14_NothingWhilePending ==
    [][\A j \in JobIds :
          PendingStep(j)
              => /\ key_cycle' = key_cycle
                 /\ static' = static
                 /\ (TASKS' = TASKS \/ TASKS' = [TASKS EXCEPT ![j] = [status |-> "processing"]])
                 /\ Count(j, "submit")' = 0
      ]_vars

\* The record is not pending once a submission was sent; the worker's
\* events begin with the draw of the key, the write of "processing" and the
\* submission, in that order.
ProcessingBeforeSubmit ==
    \A j \in DOMAIN TASKS :
        /\ (Count(j, "submit") > 0 => TASKS[j].status # "pending")
        /\ (Len(log[j]) >= 1 => log[j][1].ev = "key")
        /\ (Len(log[j]) >= 2 => log[j][2].ev = "processing")
        /\ (Len(log[j]) >= 3 => log[j][3].ev = "submit")
        /\ (TASKS[j].status = "pending" <=> Count(j, "processing") = 0)

\* While its job is pending a worker either draws its credential, which
\* advances the key cycle by one and changes nothing else that is shared, or
\* sets its record to processing.
PendingStepsAllowed ==
    \A j \in JobIds :
        PendingStep(j)
            => /\ static' = static
               /\ Count(j, "submit")' = 0
               /\ \/ /\ pc[j] = "started"
                     /\ TASKS' = TASKS
                     /\ key_cycle' = CycleNext(key_cycle).cycle
                     /\ Len(issued') = Len(issued) + 1
                  \/ /\ pc[j] = "keyed"
                     /\ key_cycle' = key_cycle
                     /\ TASKS' = [TASKS EXCEPT ![j] = [status |-> "processing"]]

\* C14, amended: setting the status to processing is the first write of a
\* job's worker to its record and comes immediately before the submission
\* request; while the job is pending the worker changes no record and nothing
\* else that is shared except that it draws its credential, which advances
\* the key cycle once; no submission is sent while the record is pending.
C14_ProcessingFirst ==
    /\ []ProcessingBeforeSubmit
    /\ [][PendingStepsAllowed]_vars

\* One worker has drawn its key and its record is still pending, while the
\* other has set processing and sent its submission.
C14_Witness ==
    \E j, k \in DOMAIN TASKS :
        /\ pc[j] = "keyed" /\ TASKS[j].status = "pending" /\ Len(issued) = 2
        /\ pc[k] = "await_post" /\ TASKS[k].status = "processing"

\* The events that may come directly before an event of each kind.
Before(ev) ==
    CASE ev = "key"        -> {}
      [] ev = "processing" -> {"key"}
      [] ev = "submit"     -> {"processing"}
      [] ev = "sleep"      -> {"submit", "poll"}
      [] ev = "poll"       -> {"sleep"}
      [] ev = "fetch"      -> {"poll"}
      [] ev = "write"      -> {"fetch"}
      [] ev = "terminal"   -> {"submit", "poll", "fetch", "write"}

\* C15: the events of one job are in one order: the single submission comes
\* before every poll, every poll directly follows a sleep, the fetch (at most
\* one) directly follows the poll that returned "completed", and the terminal
\* write is the last event, after the last poll and after the fetch; so no
\* poll and no fetch follows it.
C15_EventOrder ==
    \A j \in JobIds :
        /\ \A i \in 1..Len(log[j]) :
              IF i = 1 THEN log[j][i].ev = "key"
              ELSE log[j][i - 1].ev \in Before(log[j][i].ev)
        /\ Count(j, "submit") <= 1 /\ Count(j, "fetch") <= 1 /\ Count(j, "terminal") <= 1
        /\ \A i, k \in 1..Len(log[j]) :
              /\ (log[j][i].ev = "submit" /\ log[j][k].ev = "poll") => i < k
              /\ (log[j][i].ev = "terminal" /\ k # i) => k < i
              /\ (log[j][i].ev = "fetch" /\ log[j][k].ev = "poll") => k < i
        /\ Count(j, "fetch") = 1 => status[j] = "completed"
        /\ Count(j, "sleep") \in {Count(j, "poll"), Count(j, "poll") + 1}
        /\ (Count(j, "terminal") = 1 <=> (j \in DOMAIN TASKS /\ TASKS[j].status \in TerminalStatuses))

\* A job that polled twice, fetched, and made its terminal write.
C15_Witness ==
    \E j \in JobIds :
        /\ Count(j, "poll") = 2 /\ Count(j, "fetch") = 1 /\ Count(j, "terminal") = 1

\* C16: a job whose worker has passed line 57 has drawn one credential of
\* the pool, also when its submission failed; its submission and every one of
\* its status checks carry that credential; there are as many draws as
\* workers that have passed line 57.
C16_OneCredential ==
    /\ \A j \in JobIds :
          /\ pc[j] \in {"none", "started"} => (Count(j, "key") = 0 /\ api_key[j] = Unset)
          /\ pc[j] \notin {"none", "started"}
                => /\ Count(j, "key") = 1
                   /\ api_key[j] = log[j][1].key
                   /\ \E i \in 1..Len(API_KEYS) : api_key[j] = API_KEYS[i]
          /\ \A i \in 1..Len(log[j]) :
                log[j][i].ev \in {"submit", "poll"} => log[j][i].key = log[j][1].key
    /\ Len(issued) = Cardinality({j \in JobIds : pc[j] \notin {"none", "started"}})

\* Two jobs holding different credentials: one failed at its submission, the
\* other has sent its second status check.
C16_Witness ==
    \E j, k \in JobIds :
        /\ api_key[j] # Unset /\ api_key[k] # Unset /\ api_key[j] # api_key[k]
        /\ Done(j) /\ Count(j, "poll") = 0
        /\ Count(k, "poll") = 2

\* str(e) of the exceptions a failed or unusable answer raises.
RequestErrors ==
    {Str(e) : e \in TransportErrors}
        \cup {Str(Exc("KeyError", <<k>>)) : k \in {"task_id", "status"}}

\* C17: a worker in its poll loop has status pending, running or processing
\* and its record is processing; whatever the number of polls so far, it can
\* go on to the next sleep and the next poll (up to the budget of the
\* model); a job is terminal only if one of its requests raised or its last
\* poll returned a status outside the three.
C17_PollsOn ==
    \A j \in DOMAIN TASKS :
        /\ pc[j] \in {"sleep", "poll", "await_get"}
              => /\ TASKS[j].status = "processing"
                 /\ status[j] \in {"pending", "running", "processing"}
        /\ (pc[j] = "sleep" /\ Count(j, "poll") < MaxPolls) => ENABLED Sleep(j)
        /\ pc[j] = "poll" => ENABLED GetSend(j)
        /\ TASKS[j].status \in TerminalStatuses
              => \/ status[j] \notin {None, "pending", "running", "processing"}
                 \/ TASKS[j].error \in RequestErrors

\* A job still processing after as many polls as the budget allows, the last
\* of which returned "running".
C17_Witness ==
    \E j \in DOMAIN TASKS :
        /\ pc[j] = "sleep" /\ Count(j, "poll") = MaxPolls
        /\ status[j] = "running" /\ TASKS[j].status = "processing"

\* The worker of j is suspended: in its poll sleep, or waiting for the answer
\* to a request.
Suspended(j) == pc[j] \in {"sleep", "await_post", "await_get"}

\* C18: while the worker of one job is suspended, the worker of every other
\* running job has a next step, a submission is accepted as long as an
\* identifier is left, and a status query for any identifier is answered.
C18_NoBlocking ==
    \A j \in JobIds :
        Suspended(j)
            => /\ \A k \in JobIds \ {j} : Running(k) => ENABLED WorkerStep(k)
               /\ \A k \in JobIds : ENABLED get_status_api(k)
               /\ JobIds \ DOMAIN TASKS # {} => ENABLED start_tryon_api("m.jpg", "m.jpg")
               /\ ENABLED start_tryon_api("m.jpg", None)

\* One worker waits for the answer to its status check while the other is in
\* its poll sleep, and a status query has just been answered.
C18_Witness ==
    \E j, k \in JobIds :
        /\ pc[j] = "await_get" /\ pc[k] = "sleep" /\ Count(k, "poll") = 1
        /\ last.op = "status" /\ last.code = 200

\* The error of a job whose download_image returned False.
DownloadFailed == Str(Exc("Exception", <<"Failed to download the final image.">>))

\* The place of event ev in the log of j (0 if it is not there).
At(j, ev) ==
    IF Count(j, ev) = 0 THEN 0
    ELSE CHOOSE i \in 1..Len(log[j]) : log[j][i].ev = ev

\* C19: download_image runs at most once per job; <jobId>.png is in the
\* static directory only if job j exists, was submitted, its last poll
\* returned "completed", its worker then called download_image and the
\* request of that call did not fail; a job that failed at its submission,
\* at a poll, on a terminal status other than "completed" or on a failed
\* download request has no file; no file belongs to an unknown identifier.
C19_ArtifactAfterDownload ==
    /\ static \subseteq {FileName(j) : j \in DOMAIN TASKS}
    /\ \A j \in DOMAIN TASKS :
          /\ Count(j, "fetch") <= 1
          /\ Count(j, "write") <= 1
          /\ FileName(j) \in static
                => /\ Submitted(j)
                   /\ status[j] = "completed"
                   /\ Count(j, "fetch") = 1
                   /\ At(j, "fetch") > 1
                   /\ log[j][At(j, "fetch") - 1] = Event("poll", j)
                   /\ pc[j] \in {"downloaded", "done"}
                   /\ TASKS[j].status = "failed" => TASKS[j].error # DownloadFailed
          /\ Count(j, "write") = 1 => FileName(j) \in static
          /\ (TASKS[j].status = "failed"
                /\ \/ ~Submitted(j)
                   \/ status[j] # "completed"
                   \/ Count(j, "fetch") = 0
                   \/ TASKS[j].error = DownloadFailed)
                => FileName(j) \notin static

\* One job has its file; the other failed on the remote status "failed" and
\* has none.
C19_Witness ==
    \E j, k \in DOMAIN TASKS :
        /\ FileName(j) \in static /\ Count(j, "write") = 1
        /\ Done(k) /\ TASKS[k].status = "failed" /\ status[k] = "failed"
        /\ FileName(k) \notin static

\* A step that answers a status query.
StatusStep == last'.op = "status" /\ last' # last

\* C20: a status query changes no job record, no identifier of TASKS, neither
\* the key cycle nor the static directory, and no worker's position; and no
\* step at all removes an identifier from TASKS.
C20_ReadOnly ==
    [][/\ StatusStep
            => UNCHANGED <<TASKS, key_cycle, API_KEYS, static, pc, api_key,
                           external_task_id, status>>
       /\ DOMAIN TASKS \subseteq DOMAIN TASKS'
       /\ \A j \in DOMAIN TASKS : TASKS[j] # TASKS'[j] => ~StatusStep
      ]_vars

\* A status query has been answered with the record of a finished job while
\* the other job is still running and a file is stored.
C20_Witness ==
    /\ last.op = "status" /\ last.code = 200
    /\ Done(last.job_id)
    /\ \E k \in DOMAIN TASKS : Running(k)
    /\ static # {}

====
